---------------------------- MODULE Spec2Model ----------------------------
(***************************************************************************)
(* Model of the grpc_health_check extension (src/extension.go).            *)
(*                                                                         *)
(* One grpcHealthCheckExtension instance gc, the thread that calls its     *)
(* Start and Shutdown methods, and, for every Start call c that succeeds,  *)
(* the objects that call creates: the gRPC server c, the listener c, the   *)
(* stop channel c, the health server c, the poll goroutine c and the serve *)
(* goroutine c.  Health RPCs arrive from clients while a server accepts.   *)
(*                                                                         *)
(* Time is counted in ticks of one client timeout (src/extension.go:20,    *)
(* five seconds); sleeping goroutines wake exactly when their timer        *)
(* expires and the computation between two blocking calls takes no time.   *)
(***************************************************************************)
EXTENDS Integers, FiniteSets, Sequences, TLC

\* ------------------------------------------------------------------ bounds
MaxStarts == 2      \* Start calls observed
MaxShutdowns == 2   \* Shutdown calls observed
MaxRpc == 1         \* health RPCs observed
MaxTime == 5        \* clock horizon, in ticks
StartPeriod == 2    \* gc.config.StartPeriod, in ticks
Interval == 2       \* gc.config.Interval, in ticks

\* client.Timeout: 5 * time.Second is one tick
ClientTimeout == 1

Calls == 1..MaxStarts
Rpcs == 1..MaxRpc
Nil == 0

\* service names of the health protocol; "" is the whole-server name
Names == {"", "other"}
\* HTTP status codes a probe may see, around the two edges of [200,300)
Codes == {199, 200, 299, 300}
\* what client.Get returns: (nil, err) or (response, nil)
Outcomes == {[err |-> TRUE, code |-> 0]} \cup {[err |-> FALSE, code |-> k] : k \in Codes}
NoOutcome == [err |-> FALSE, code |-> 0]

VARIABLES
    gcServer,     \* gc.server: Nil or the server made by Start call c
    gcStopCh,     \* gc.stopCh: Nil or the channel made by Start call c
    nStart,       \* Start calls made so far
    startErr,     \* startErr[c]: what Start call c returned
    srvQuit,      \* srvQuit[s]: server s has been asked to stop (s.quit fired, s.lis = nil)
    srvDone,      \* srvDone[s]: the stop of server s has completed (s.done fired)
    lnOpen,       \* lnOpen[c]: the listener bound by Start call c is open
    hs,           \* hs[c]: status table of the health server made by Start call c
    written,      \* written[c]: the <<name, status>> pairs set in hs[c] after its creation
    pollPc,       \* poll goroutine c: "none", "warmup", "probing", "got", "sleep"
    wake,         \* wake[c]: when the running time.Sleep of poll goroutine c ends
    pollStatus,   \* the local variable status of poll goroutine c
    lastOutcome,  \* what the last completed client.Get of poll goroutine c returned
    probes,       \* client.Get calls issued by poll goroutine c
    publishes,    \* hs.SetServingStatus calls made by poll goroutine c
    launched,     \* launched[c]: the time poll goroutine c was launched
    probeAt,      \* probeAt[c]: the time the last client.Get was issued
    busy,         \* busy[c]: total time spent inside completed client.Get calls
    servePc,      \* serve goroutine c: "none", "start", "deferred", "serving",
                  \*   "draining", "closing", "done"
    serveCh,      \* the channel the deferred close of serve goroutine c will close
    serveSrv,     \* the server serve goroutine c called Serve on
    serveErr,     \* what Serve returned to goroutine c
    chClosed,     \* chClosed[c]: stop channel c is closed
    faults,       \* faults[c]: fatal error events serve goroutine c reported
    panicked,     \* the process died of a run-time panic
    callerPc,     \* the lifecycle thread: "idle", "gracefulStop", "waitStop"
    shutSrv,      \* the server the running Shutdown is stopping
    shutCh,       \* the channel the running Shutdown receives from
    nShutdown,    \* Shutdown calls made so far
    shutLog,      \* one record per returned Shutdown call
    rpc,          \* rpc[r]: a client's health RPC
    now           \* the clock: ticks since the first poll goroutine was launched

gcVars == <<gcServer, gcStopCh, nStart, startErr>>
srvVars == <<srvQuit, srvDone, lnOpen>>
hsVars == <<hs, written>>
pollVars == <<pollPc, wake, pollStatus, lastOutcome, probes, publishes, launched, probeAt, busy>>
serveVars == <<servePc, serveCh, serveSrv, serveErr, chClosed, faults>>
callVars == <<callerPc, shutSrv, shutCh, nShutdown, shutLog>>
vars == <<gcVars, srvVars, hsVars, pollVars, serveVars, callVars, panicked, rpc, now>>

\* ------------------------------------------------- the health protocol server
\* health.NewServer(): a table holding SERVING for the whole-server name
NewServer == [n \in Names |-> IF n = "" THEN "SERVING" ELSE "ABSENT"]

NoTable == [n \in Names |-> "ABSENT"]

\* hs.SetServingStatus(name, status): overwrite
SetServingStatus(table, name, status) == [table EXCEPT ![name] = status]

\* the Check RPC: the status held for the name, SERVICE_UNKNOWN when none is
Check(table, name) == IF table[name] = "ABSENT" THEN "SERVICE_UNKNOWN" ELSE table[name]

\* healthpb.RegisterHealthServer(server, hs): server s has its health server
Registered(s) == hs[s] # NoTable

\* ----------------------------------------------------------------- the probe
\* Verdict with the upper edge of the healthy range off by one
VerdictUpperEdge(o) ==
    IF o.err THEN "NOT_SERVING"
    ELSE IF o.code < 200 \/ o.code > 300 THEN "NOT_SERVING"
    ELSE "SERVING"

\* the verdict of one poll iteration
Verdict(o) ==
    IF o.err THEN "NOT_SERVING"
    ELSE IF o.code < 200 \/ o.code >= 300 THEN "NOT_SERVING"
    ELSE "SERVING"

\* -------------------------------------------------------------------- Init
\* newServer: config, logger and settings set, server and stopCh nil
Init ==
    /\ gcServer = Nil
    /\ gcStopCh = Nil
    /\ nStart = 0
    /\ startErr = [c \in Calls |-> "none"]
    /\ srvQuit = [c \in Calls |-> FALSE]
    /\ srvDone = [c \in Calls |-> FALSE]
    /\ lnOpen = [c \in Calls |-> FALSE]
    /\ hs = [c \in Calls |-> NoTable]
    /\ written = [c \in Calls |-> {}]
    /\ pollPc = [c \in Calls |-> "none"]
    /\ wake = [c \in Calls |-> 0]
    /\ pollStatus = [c \in Calls |-> "SERVING"]
    /\ lastOutcome = [c \in Calls |-> NoOutcome]
    /\ probes = [c \in Calls |-> 0]
    /\ publishes = [c \in Calls |-> 0]
    /\ launched = [c \in Calls |-> 0]
    /\ probeAt = [c \in Calls |-> 0]
    /\ busy = [c \in Calls |-> 0]
    /\ servePc = [c \in Calls |-> "none"]
    /\ serveCh = [c \in Calls |-> Nil]
    /\ serveSrv = [c \in Calls |-> Nil]
    /\ serveErr = [c \in Calls |-> "none"]
    /\ chClosed = [c \in Calls |-> FALSE]
    /\ faults = [c \in Calls |-> 0]
    /\ panicked = FALSE
    /\ callerPc = "idle"
    /\ shutSrv = Nil
    /\ shutCh = Nil
    /\ nShutdown = 0
    /\ shutLog = <<>>
    /\ rpc = [r \in Rpcs |-> [st |-> "idle", srv |-> Nil, kind |-> "Check", ans |-> "none"]]
    /\ now = 0

\* ------------------------------------------------------------------- Start
\* the component contract: Start is called by the lifecycle thread, between
\* its other calls, on an instance that no Start call has started
CanStart ==
    /\ ~panicked
    /\ callerPc = "idle"
    /\ nStart < MaxStarts
    /\ \A c \in Calls : startErr[c] # "nil"

\* outside the contract: Start is called again on an instance that an earlier
\* Start call has started
CanStartAgain ==
    /\ ~panicked
    /\ callerPc = "idle"
    /\ nStart < MaxStarts
    /\ \E c \in Calls : startErr[c] = "nil"

\* gc.config.Grpc.ToServer fails: Start returns its error
ServerError ==
    /\ nStart' = nStart + 1
    /\ startErr' = [startErr EXCEPT ![nStart + 1] = "ToServer"]
    /\ UNCHANGED <<gcServer, gcStopCh, srvVars, hsVars, pollVars, serveVars, callVars,
                   panicked, rpc, now>>

StartServerError == CanStart /\ ServerError

\* StartBindError with the listener bound after the goroutines are launched
StartBindErrorLate ==
    /\ CanStart
    /\ nStart' = nStart + 1
    /\ gcServer' = nStart + 1
    /\ gcStopCh' = nStart + 1
    /\ hs' = [hs EXCEPT ![nStart + 1] = NewServer]
    /\ pollPc' = [pollPc EXCEPT ![nStart + 1] = "warmup"]
    /\ wake' = [wake EXCEPT ![nStart + 1] = now + StartPeriod]
    /\ launched' = [launched EXCEPT ![nStart + 1] = now]
    /\ startErr' = [startErr EXCEPT ![nStart + 1] = "bind"]
    /\ UNCHANGED <<srvVars, written, pollStatus, lastOutcome, probes, publishes, probeAt,
                   busy, serveVars, callVars, panicked, rpc, now>>

\* BindError with the stop channel made before the listener is bound
BindErrorAfterMake ==
    /\ nStart' = nStart + 1
    /\ gcServer' = nStart + 1
    /\ gcStopCh' = nStart + 1
    /\ startErr' = [startErr EXCEPT ![nStart + 1] = "bind"]
    /\ UNCHANGED <<srvVars, hsVars, pollVars, serveVars, callVars, panicked, rpc, now>>

\* the server is made and stored, gc.config.Grpc.NetAddr.Listen fails
BindError ==
    /\ nStart' = nStart + 1
    /\ gcServer' = nStart + 1
    /\ startErr' = [startErr EXCEPT ![nStart + 1] = "bind"]
    /\ UNCHANGED <<gcStopCh, srvVars, hsVars, pollVars, serveVars, callVars,
                   panicked, rpc, now>>

StartBindError == CanStart /\ BindError

\* LaunchPoll without the warm-up sleep
LaunchPollNoWarmup(c) ==
    /\ pollPc' = [pollPc EXCEPT ![c] = "warmup"]
    /\ wake' = [wake EXCEPT ![c] = now]
    /\ launched' = [launched EXCEPT ![c] = now]

\* the go statement of the poll goroutine: it begins time.Sleep(StartPeriod)
LaunchPoll(c) ==
    /\ pollPc' = [pollPc EXCEPT ![c] = "warmup"]
    /\ wake' = [wake EXCEPT ![c] = now + StartPeriod]
    /\ launched' = [launched EXCEPT ![c] = now]

\* the go statement of the serve goroutine
LaunchServe(c) ==
    /\ servePc' = [servePc EXCEPT ![c] = "start"]

\* Succeed with the goroutines launched before the health server is made
\* and registered
SucceedUnregistered ==
    /\ LET c == nStart + 1 IN
        /\ nStart' = c
        /\ gcServer' = c
        /\ lnOpen' = [lnOpen EXCEPT ![c] = TRUE]
        /\ gcStopCh' = c
        /\ LaunchPoll(c)
        /\ LaunchServe(c)
        /\ startErr' = [startErr EXCEPT ![c] = "nil"]
    /\ UNCHANGED <<srvQuit, srvDone, hsVars, pollStatus, lastOutcome, probes, publishes,
                   probeAt, busy, serveCh, serveSrv, serveErr, chClosed, faults,
                   callVars, panicked, rpc, now>>

\* Start succeeds: server, listener, stop channel, health server, both goroutines
Succeed ==
    /\ LET c == nStart + 1 IN
        /\ nStart' = c
        /\ gcServer' = c
        /\ lnOpen' = [lnOpen EXCEPT ![c] = TRUE]
        /\ gcStopCh' = c
        /\ hs' = [hs EXCEPT ![c] = NewServer]
        /\ LaunchPoll(c)
        /\ LaunchServe(c)
        /\ startErr' = [startErr EXCEPT ![c] = "nil"]
    /\ UNCHANGED <<srvQuit, srvDone, written, pollStatus, lastOutcome, probes, publishes,
                   probeAt, busy, serveCh, serveSrv, serveErr, chClosed, faults,
                   callVars, panicked, rpc, now>>

StartOk == CanStart /\ Succeed

\* the three outcomes of a Start call made on a started instance
StartAgainServerError == CanStartAgain /\ ServerError

StartAgainBindError == CanStartAgain /\ BindError

StartAgainOk == CanStartAgain /\ Succeed

\* ------------------------------------------------------ the poll goroutine
\* PollProbe with a loop that ends once its server has been asked to stop
PollProbeUntilStopped(c) ==
    /\ ~panicked
    /\ ~srvQuit[c]
    /\ pollPc[c] \in {"warmup", "sleep"}
    /\ wake[c] <= now
    /\ pollPc' = [pollPc EXCEPT ![c] = "probing"]
    /\ pollStatus' = [pollStatus EXCEPT ![c] = "SERVING"]
    /\ probes' = [probes EXCEPT ![c] = @ + 1]
    /\ probeAt' = [probeAt EXCEPT ![c] = now]
    /\ UNCHANGED <<wake, lastOutcome, publishes, launched, busy>>
    /\ UNCHANGED <<gcVars, srvVars, hsVars, serveVars, callVars, panicked, rpc, now>>

\* a time.Sleep ends (the warm-up's, or an iteration's): the next iteration
\* sets status to SERVING and calls client.Get
PollProbe(c) ==
    /\ ~panicked
    /\ pollPc[c] \in {"warmup", "sleep"}
    /\ wake[c] <= now
    /\ pollPc' = [pollPc EXCEPT ![c] = "probing"]
    /\ pollStatus' = [pollStatus EXCEPT ![c] = "SERVING"]
    /\ probes' = [probes EXCEPT ![c] = @ + 1]
    /\ probeAt' = [probeAt EXCEPT ![c] = now]
    /\ UNCHANGED <<wake, lastOutcome, publishes, launched, busy>>
    /\ UNCHANGED <<gcVars, srvVars, hsVars, serveVars, callVars, panicked, rpc, now>>

\* PollGot with the goroutine returning when client.Get fails
PollGotReturnOnError(c, o) ==
    /\ ~panicked
    /\ pollPc[c] = "probing"
    /\ now - probeAt[c] <= ClientTimeout
    /\ pollPc' = [pollPc EXCEPT ![c] = IF o.err THEN "returned" ELSE "got"]
    /\ lastOutcome' = [lastOutcome EXCEPT ![c] = o]
    /\ pollStatus' = [pollStatus EXCEPT ![c] = Verdict(o)]
    /\ busy' = [busy EXCEPT ![c] = @ + (now - probeAt[c])]
    /\ UNCHANGED <<wake, probes, publishes, launched, probeAt>>
    /\ UNCHANGED <<gcVars, srvVars, hsVars, serveVars, callVars, panicked, rpc, now>>

\* client.Get returns o, at most ClientTimeout after it was called; the
\* if / else if sets status
PollGot(c, o) ==
    /\ ~panicked
    /\ pollPc[c] = "probing"
    /\ now - probeAt[c] <= ClientTimeout
    /\ pollPc' = [pollPc EXCEPT ![c] = "got"]
    /\ lastOutcome' = [lastOutcome EXCEPT ![c] = o]
    /\ pollStatus' = [pollStatus EXCEPT ![c] = Verdict(o)]
    /\ busy' = [busy EXCEPT ![c] = @ + (now - probeAt[c])]
    /\ UNCHANGED <<wake, probes, publishes, launched, probeAt>>
    /\ UNCHANGED <<gcVars, srvVars, hsVars, serveVars, callVars, panicked, rpc, now>>

\* PublishName naming a service of its own
PublishNameOther == "other"

\* the service name the poll goroutine publishes under
PublishName == ""

\* IterationSleep shortened by the time a probe may take
IterationSleepShort == Interval - ClientTimeout

\* the time.Sleep that ends an iteration
IterationSleep == Interval

\* PollPublish with hs a field of the instance, as server and stopCh are: the
\* goroutine publishes into the table of the latest successful Start
PollPublishLatestTable(c) ==
    /\ ~panicked
    /\ pollPc[c] = "got"
    /\ hs' = [hs EXCEPT ![gcStopCh] = SetServingStatus(@, PublishName, pollStatus[c])]
    /\ written' = [written EXCEPT ![gcStopCh] = @ \cup {<<PublishName, pollStatus[c]>>}]
    /\ publishes' = [publishes EXCEPT ![c] = @ + 1]
    /\ pollPc' = [pollPc EXCEPT ![c] = "sleep"]
    /\ wake' = [wake EXCEPT ![c] = now + IterationSleep]
    /\ UNCHANGED <<pollStatus, lastOutcome, probes, launched, probeAt, busy>>
    /\ UNCHANGED <<gcVars, srvVars, serveVars, callVars, panicked, rpc, now>>

\* PollPublish with the loop going on without its sleep
PollPublishNoSleep(c) ==
    /\ ~panicked
    /\ pollPc[c] = "got"
    /\ hs' = [hs EXCEPT ![c] = SetServingStatus(@, PublishName, pollStatus[c])]
    /\ written' = [written EXCEPT ![c] = @ \cup {<<PublishName, pollStatus[c]>>}]
    /\ publishes' = [publishes EXCEPT ![c] = @ + 1]
    /\ pollPc' = [pollPc EXCEPT ![c] = "sleep"]
    /\ wake' = [wake EXCEPT ![c] = now]
    /\ UNCHANGED <<pollStatus, lastOutcome, probes, launched, probeAt, busy>>
    /\ UNCHANGED <<gcVars, srvVars, serveVars, callVars, panicked, rpc, now>>

\* hs.SetServingStatus("", status), then time.Sleep(gc.config.Interval) begins
PollPublish(c) ==
    /\ ~panicked
    /\ pollPc[c] = "got"
    /\ hs' = [hs EXCEPT ![c] = SetServingStatus(@, PublishName, pollStatus[c])]
    /\ written' = [written EXCEPT ![c] = @ \cup {<<PublishName, pollStatus[c]>>}]
    /\ publishes' = [publishes EXCEPT ![c] = @ + 1]
    /\ pollPc' = [pollPc EXCEPT ![c] = "sleep"]
    /\ wake' = [wake EXCEPT ![c] = now + IterationSleep]
    /\ UNCHANGED <<pollStatus, lastOutcome, probes, launched, probeAt, busy>>
    /\ UNCHANGED <<gcVars, srvVars, serveVars, callVars, panicked, rpc, now>>

\* a poll goroutine that has something to do at the present instant
PollDue(c) ==
    \/ pollPc[c] \in {"warmup", "sleep"} /\ wake[c] <= now
    \/ pollPc[c] = "probing" /\ now - probeAt[c] >= ClientTimeout
    \/ pollPc[c] = "got"

\* the clock counts from the launch of the first poll goroutine (no timer
\* runs before it); it advances once no poll goroutine has anything left to
\* do at the present instant
Tick ==
    /\ ~panicked
    /\ now < MaxTime
    /\ \E c \in Calls : pollPc[c] # "none"
    /\ \A c \in Calls : ~PollDue(c)
    /\ now' = now + 1
    /\ UNCHANGED <<gcVars, srvVars, hsVars, pollVars, serveVars, callVars, panicked, rpc>>

\* ----------------------------------------------------------- the gRPC server
\* server s is in an accept loop: some goroutine is inside s.Serve and s has
\* not been asked to stop
InAcceptLoop(s) == \E g \in Calls : servePc[g] = "serving" /\ serveSrv[g] = s

Accepting(s) == InAcceptLoop(s) /\ ~srvQuit[s]

InFlight(s) == {r \in Rpcs : rpc[r].st = "inflight" /\ rpc[r].srv = s}

\* Drained as Stop has it: pending RPCs are not waited for
DrainedHard(s) == ~InAcceptLoop(s)

\* what GracefulStop waits for before it returns: every Serve call has left
\* its accept loop and every pending RPC has finished
Drained(s) == ~InAcceptLoop(s) /\ InFlight(s) = {}

\* ----------------------------------------------------- the serve goroutine
\* defer close(gc.stopCh): the channel to close is read now
ServeDefer(g) ==
    /\ ~panicked
    /\ servePc[g] = "start"
    /\ serveCh' = [serveCh EXCEPT ![g] = gcStopCh]
    /\ servePc' = [servePc EXCEPT ![g] = "deferred"]
    /\ UNCHANGED <<serveSrv, serveErr, chClosed, faults>>
    /\ UNCHANGED <<gcVars, srvVars, hsVars, pollVars, callVars, panicked, rpc, now>>

\* IsFault without the comparison with the sentinel
IsFaultAnyError(err) == err # "nil"

\* !errors.Is(err, grpc.ErrServerStopped) && err != nil
IsFault(err) == err # "ErrServerStopped" /\ err # "nil"

\* gc.server.Serve(ln) has returned err in goroutine g: the if reports a
\* fault or not, then the deferred close is due; Serve closes its listener
ServeReturned(g, err) ==
    /\ serveErr' = [serveErr EXCEPT ![g] = err]
    /\ faults' = [faults EXCEPT ![g] = IF IsFault(err) THEN @ + 1 ELSE @]
    /\ servePc' = [servePc EXCEPT ![g] = "closing"]
    /\ lnOpen' = [lnOpen EXCEPT ![g] = FALSE]

\* gc.server.Serve(ln) is called on a server already asked to stop: it
\* closes ln and returns ErrServerStopped
ServeCallStopped(g) ==
    /\ ~panicked
    /\ servePc[g] = "deferred"
    /\ srvQuit[gcServer]
    /\ serveSrv' = [serveSrv EXCEPT ![g] = gcServer]
    /\ ServeReturned(g, "ErrServerStopped")
    /\ UNCHANGED <<serveCh, chClosed, srvQuit, srvDone>>
    /\ UNCHANGED <<gcVars, hsVars, pollVars, callVars, panicked, rpc, now>>

\* gc.server.Serve(ln) is called and enters its accept loop
ServeCall(g) ==
    /\ ~panicked
    /\ servePc[g] = "deferred"
    /\ ~srvQuit[gcServer]
    /\ serveSrv' = [serveSrv EXCEPT ![g] = gcServer]
    /\ servePc' = [servePc EXCEPT ![g] = "serving"]
    /\ UNCHANGED <<serveCh, serveErr, chClosed, faults>>
    /\ UNCHANGED <<gcVars, srvVars, hsVars, pollVars, callVars, panicked, rpc, now>>

\* Accept fails for good on a server not asked to stop: Serve returns the error
ServeFatal(g) ==
    /\ ~panicked
    /\ servePc[g] = "serving"
    /\ ~srvQuit[serveSrv[g]]
    /\ ServeReturned(g, "fatal")
    /\ UNCHANGED <<serveCh, serveSrv, chClosed, srvQuit, srvDone>>
    /\ UNCHANGED <<gcVars, hsVars, pollVars, callVars, panicked, rpc, now>>

\* the server was asked to stop: the accept loop ends, Serve waits for the
\* stop to complete
ServeStopAccept(g) ==
    /\ ~panicked
    /\ servePc[g] = "serving"
    /\ srvQuit[serveSrv[g]]
    /\ servePc' = [servePc EXCEPT ![g] = "draining"]
    /\ UNCHANGED <<serveCh, serveSrv, serveErr, chClosed, faults>>
    /\ UNCHANGED <<gcVars, srvVars, hsVars, pollVars, callVars, panicked, rpc, now>>

\* the stop has completed: Serve returns nil
ServeReturnNil(g) ==
    /\ ~panicked
    /\ servePc[g] = "draining"
    /\ srvDone[serveSrv[g]]
    /\ ServeReturned(g, "nil")
    /\ UNCHANGED <<serveCh, serveSrv, chClosed, srvQuit, srvDone>>
    /\ UNCHANGED <<gcVars, hsVars, pollVars, callVars, panicked, rpc, now>>

\* ServeClose without the deferred close
ServeCloseMissing(g) ==
    /\ ~panicked
    /\ servePc[g] = "closing"
    /\ servePc' = [servePc EXCEPT ![g] = "done"]
    /\ UNCHANGED <<serveCh, serveSrv, serveErr, faults, chClosed, panicked>>
    /\ UNCHANGED <<gcVars, srvVars, hsVars, pollVars, callVars, rpc, now>>

\* the deferred close(gc.stopCh) runs; closing a closed channel panics
ServeClose(g) ==
    /\ ~panicked
    /\ servePc[g] = "closing"
    /\ servePc' = [servePc EXCEPT ![g] = "done"]
    /\ IF chClosed[serveCh[g]]
       THEN panicked' = TRUE /\ UNCHANGED chClosed
       ELSE chClosed' = [chClosed EXCEPT ![serveCh[g]] = TRUE] /\ UNCHANGED panicked
    /\ UNCHANGED <<serveCh, serveSrv, serveErr, faults>>
    /\ UNCHANGED <<gcVars, srvVars, hsVars, pollVars, callVars, rpc, now>>

\* ---------------------------------------------------------------- Shutdown
\* a Shutdown call returns nil
ShutdownReturn(s, ch) ==
    /\ callerPc' = "idle"
    /\ shutLog' = Append(shutLog, [srv |-> s, ch |-> ch, err |-> "nil"])

\* NotStarted when the check is left out
NotStartedUnchecked == FALSE

\* gc.server == nil
NotStarted == gcServer = Nil

\* Shutdown is called: it returns at once when gc.server is nil, else
\* gc.server.GracefulStop() begins: the server stops accepting and closes
\* the listeners it serves on
ShutdownCall ==
    /\ ~panicked
    /\ callerPc = "idle"
    /\ nShutdown < MaxShutdowns
    /\ nShutdown' = nShutdown + 1
    /\ IF NotStarted
       THEN /\ ShutdownReturn(Nil, Nil)
            /\ UNCHANGED <<shutSrv, shutCh, srvVars>>
       ELSE /\ callerPc' = "gracefulStop"
            /\ shutSrv' = gcServer
            /\ srvQuit' = [srvQuit EXCEPT ![gcServer] = TRUE]
            /\ lnOpen' = [g \in Calls |->
                            lnOpen[g] /\ ~(servePc[g] = "serving" /\ serveSrv[g] = gcServer)]
            /\ UNCHANGED <<shutCh, shutLog, srvDone>>
    /\ UNCHANGED <<gcVars, hsVars, pollVars, serveVars, panicked, rpc, now>>

\* GracefulStop returns once the server is drained; then gc.stopCh is read:
\* nil, and Shutdown returns; a channel, and Shutdown receives from it
ShutdownStopped ==
    /\ ~panicked
    /\ callerPc = "gracefulStop"
    /\ Drained(shutSrv)
    /\ srvDone' = [srvDone EXCEPT ![shutSrv] = TRUE]
    /\ IF gcStopCh = Nil
       THEN /\ ShutdownReturn(shutSrv, Nil)
            /\ UNCHANGED shutCh
       ELSE /\ callerPc' = "waitStop"
            /\ shutCh' = gcStopCh
            /\ UNCHANGED shutLog
    /\ UNCHANGED <<shutSrv, nShutdown, srvQuit, lnOpen>>
    /\ UNCHANGED <<gcVars, hsVars, pollVars, serveVars, panicked, rpc, now>>

\* StopChReady for a channel that is sent one value instead of being closed:
\* the first receive takes it
StopChSignalledOnce(ch) == chClosed[ch] /\ \A i \in 1..Len(shutLog) : shutLog[i].ch # ch

\* StopChReady when Shutdown does not receive from the channel
StopChNotAwaited(ch) == TRUE

\* what <-gc.stopCh waits for
StopChReady(ch) == chClosed[ch]

\* <-gc.stopCh returns: the channel is closed; Shutdown returns nil
ShutdownRecv ==
    /\ ~panicked
    /\ callerPc = "waitStop"
    /\ StopChReady(shutCh)
    /\ ShutdownReturn(shutSrv, shutCh)
    /\ UNCHANGED <<shutSrv, shutCh, nShutdown>>
    /\ UNCHANGED <<gcVars, srvVars, hsVars, pollVars, serveVars, panicked, rpc, now>>

\* --------------------------------------------------------------- health RPCs
\* a client's RPC is accepted by a server in its accept loop
RpcBegin(r, s, k) ==
    /\ ~panicked
    /\ rpc[r].st = "idle"
    /\ Accepting(s)
    /\ rpc' = [rpc EXCEPT ![r] = [st |-> "inflight", srv |-> s, kind |-> k, ans |-> "none"]]
    /\ UNCHANGED <<gcVars, srvVars, hsVars, pollVars, serveVars, callVars, panicked, now>>

\* the handler of Check("") answers from the table of the health server
\* registered on the RPC's server
CheckRespond(r) ==
    /\ ~panicked
    /\ rpc[r].st = "inflight"
    /\ rpc[r].kind = "Check"
    /\ rpc' = [rpc EXCEPT ![r].st = "responded", ![r].ans = Check(hs[rpc[r].srv], "")]
    /\ UNCHANGED <<gcVars, srvVars, hsVars, pollVars, serveVars, callVars, panicked, now>>

\* a Watch stream ends when its client cancels it
WatchCancel(r) ==
    /\ ~panicked
    /\ rpc[r].st = "inflight"
    /\ rpc[r].kind = "Watch"
    /\ rpc' = [rpc EXCEPT ![r].st = "cancelled"]
    /\ UNCHANGED <<gcVars, srvVars, hsVars, pollVars, serveVars, callVars, panicked, now>>

\* ----------------------------------------------------------- specification
Next ==
    \/ StartServerError
    \/ StartBindError
    \/ StartOk
    \/ \E c \in Calls : PollProbe(c)
    \/ \E c \in Calls : \E o \in Outcomes : PollGot(c, o)
    \/ \E c \in Calls : PollPublish(c)
    \/ Tick
    \/ \E g \in Calls : ServeDefer(g)
    \/ \E g \in Calls : ServeCallStopped(g)
    \/ \E g \in Calls : ServeCall(g)
    \/ \E g \in Calls : ServeFatal(g)
    \/ \E g \in Calls : ServeStopAccept(g)
    \/ \E g \in Calls : ServeReturnNil(g)
    \/ \E g \in Calls : ServeClose(g)
    \/ ShutdownCall
    \/ ShutdownStopped
    \/ ShutdownRecv
    \/ \E r \in Rpcs : \E s \in Calls : \E k \in {"Check", "Watch"} : RpcBegin(r, s, k)
    \/ \E r \in Rpcs : CheckRespond(r)
    \/ \E r \in Rpcs : WatchCancel(r)

Spec == Init /\ [][Next]_vars

\* the goroutines and the lifecycle thread are scheduled fairly, and a
\* unary handler answers; clients and the environment owe nothing
Fairness ==
    /\ \A g \in Calls : WF_vars(ServeDefer(g)) /\ WF_vars(ServeCallStopped(g))
                        /\ WF_vars(ServeCall(g)) /\ WF_vars(ServeStopAccept(g))
                        /\ WF_vars(ServeReturnNil(g)) /\ WF_vars(ServeClose(g))
    /\ WF_vars(ShutdownStopped)
    /\ WF_vars(ShutdownRecv)
    /\ \A r \in Rpcs : WF_vars(CheckRespond(r))

\* the system until the first probe: the poll goroutines stay in their warm-up
WarmupNext ==
    \/ StartServerError
    \/ StartBindError
    \/ StartOk
    \/ Tick
    \/ \E g \in Calls : ServeDefer(g)
    \/ \E g \in Calls : ServeCallStopped(g)
    \/ \E g \in Calls : ServeCall(g)
    \/ \E g \in Calls : ServeFatal(g)
    \/ \E g \in Calls : ServeStopAccept(g)
    \/ \E g \in Calls : ServeReturnNil(g)
    \/ \E g \in Calls : ServeClose(g)
    \/ ShutdownCall
    \/ ShutdownStopped
    \/ ShutdownRecv
    \/ \E r \in Rpcs : \E s \in Calls : \E k \in {"Check", "Watch"} : RpcBegin(r, s, k)
    \/ \E r \in Rpcs : CheckRespond(r)
    \/ \E r \in Rpcs : WatchCancel(r)

WarmupSpec == Init /\ [][WarmupNext]_vars /\ Fairness

\* the lifecycle with Start called any number of times, contract or not; the
\* poll goroutines stay in their warm-up and no client calls
RestartNext ==
    \/ StartServerError
    \/ StartBindError
    \/ StartOk
    \/ StartAgainServerError
    \/ StartAgainBindError
    \/ StartAgainOk
    \/ \E g \in Calls : ServeDefer(g)
    \/ \E g \in Calls : ServeCallStopped(g)
    \/ \E g \in Calls : ServeCall(g)
    \/ \E g \in Calls : ServeFatal(g)
    \/ \E g \in Calls : ServeStopAccept(g)
    \/ \E g \in Calls : ServeReturnNil(g)
    \/ \E g \in Calls : ServeClose(g)
    \/ ShutdownCall
    \/ ShutdownStopped
    \/ ShutdownRecv

RestartSpec == Init /\ [][RestartNext]_vars /\ Fairness

\* the poll goroutines are scheduled fairly, client.Get returns within the
\* client's timeout, and time passes
PollFairness ==
    /\ \A c \in Calls : WF_vars(PollProbe(c)) /\ WF_vars(PollPublish(c))
                        /\ WF_vars(\E o \in Outcomes : PollGot(c, o))
    /\ WF_vars(Tick)

\* the Start calls of the component contract and the poll goroutine of the
\* one that succeeds
LoopNext ==
    \/ StartServerError
    \/ StartBindError
    \/ StartOk
    \/ \E c \in Calls : PollProbe(c)
    \/ \E c \in Calls : \E o \in Outcomes : PollGot(c, o)
    \/ \E c \in Calls : PollPublish(c)
    \/ Tick

LoopSpec == Init /\ [][LoopNext]_vars /\ PollFairness

\* the Start calls, contract or not, and the poll goroutines they launch
PollNext ==
    \/ StartServerError
    \/ StartBindError
    \/ StartOk
    \/ StartAgainServerError
    \/ StartAgainBindError
    \/ StartAgainOk
    \/ \E c \in Calls : PollProbe(c)
    \/ \E c \in Calls : \E o \in Outcomes : PollGot(c, o)
    \/ \E c \in Calls : PollPublish(c)
    \/ Tick

PollSpec == Init /\ [][PollNext]_vars /\ PollFairness

\* ================================================================== claims
Started(c) == startErr[c] = "nil"

Healthy(o) == ~o.err /\ o.code >= 200 /\ o.code < 300

\* the time poll goroutine c has been running
Elapsed(c) == now - launched[c]

\* C1: once an iteration has published, the status held for "" is SERVING if
\* and only if that iteration's probe returned a response with a status code
\* in [200,300), and NOT_SERVING otherwise, whatever was published before.
C1_VerdictFollowsLastProbe ==
    \A c \in Calls :
        pollPc[c] = "sleep" =>
            /\ hs[c][""] = (IF Healthy(lastOutcome[c]) THEN "SERVING" ELSE "NOT_SERVING")
            /\ lastOutcome[c] \in Outcomes

\* C1 witness: a healthy probe has been published as SERVING after a client
\* was answered NOT_SERVING, the verdict of an earlier failed probe.
C1_Witness ==
    \E c \in Calls : \E r \in Rpcs :
        /\ pollPc[c] = "sleep"
        /\ lastOutcome[c] = [err |-> FALSE, code |-> 299]
        /\ hs[c][""] = "SERVING"
        /\ rpc[r].srv = c
        /\ rpc[r].ans = "NOT_SERVING"

\* C2 as stated: at the instant StartPeriod + k*Interval after the launch,
\* once the poll goroutine has done all it does at that instant, exactly
\* k+1 probes have been issued.
C2_Original ==
    \A c \in Calls : \A k \in 0..MaxTime :
        (pollPc[c] # "none" /\ ~PollDue(c) /\ Elapsed(c) = StartPeriod + k * Interval)
            => probes[c] = k + 1

\* C2 amended: probe k+1 is issued exactly StartPeriod + k*Interval plus the
\* time spent inside the first k probes after the launch, and not before:
\* the warm-up sleep ends StartPeriod after the launch, and every later sleep
\* ends Interval after the probe before it has returned.
C2_ProbeTimes ==
    \A c \in Calls :
        /\ pollPc[c] = "warmup" =>
              probes[c] = 0 /\ wake[c] = launched[c] + StartPeriod /\ now <= wake[c]
        /\ pollPc[c] = "probing" =>
              probeAt[c] = launched[c] + StartPeriod + (probes[c] - 1) * Interval + busy[c]
        /\ pollPc[c] = "sleep" =>
              /\ wake[c] = launched[c] + StartPeriod + probes[c] * Interval + busy[c]
              /\ now <= wake[c]

\* C2 witness: the second probe has been issued, one interval after a first
\* probe that took one tick returned.
C2_Witness ==
    \E c \in Calls : pollPc[c] = "probing" /\ probes[c] = 2 /\ busy[c] = 1

\* C3: while less than StartPeriod has passed since the launch, no probe has
\* been issued, nothing has been published, and the status of "" is the one
\* the health server was created with.
C3_NothingBeforeStartPeriod ==
    \A c \in Calls :
        (pollPc[c] # "none" /\ Elapsed(c) < StartPeriod) =>
            /\ probes[c] = 0
            /\ publishes[c] = 0
            /\ written[c] = {}
            /\ hs[c] = NewServer

\* C3 witness: a started instance one tick before the end of its warm-up.
C3_Witness ==
    \E c \in Calls : Started(c) /\ pollPc[c] = "warmup" /\ now > 0 /\ Elapsed(c) = StartPeriod - 1

\* C4: a Start call that returned an error launched neither goroutine, left
\* no listener open and made no stop channel; and while no Start call has
\* returned nil, no goroutine runs and no server accepts.
C4_FailedStartLaunchesNothing ==
    /\ \A c \in Calls :
          startErr[c] \in {"ToServer", "bind"} =>
              /\ pollPc[c] = "none"
              /\ servePc[c] = "none"
              /\ ~lnOpen[c]
              /\ gcStopCh # c
    /\ (\A c \in Calls : ~Started(c)) =>
          \A c \in Calls : pollPc[c] = "none" /\ servePc[c] = "none" /\ ~Accepting(c)

\* C4 witness: a Start call failed at the bind, after storing its server.
C4_Witness ==
    \E c \in Calls : startErr[c] = "bind" /\ gcServer = c /\ gcStopCh = Nil

\* the running Shutdown was called on started instance c before any probe and
\* with no RPC begun
EarlyShutdown(c) ==
    /\ callerPc = "gracefulStop"
    /\ shutSrv = c
    /\ Started(c)
    /\ probes[c] = 0
    /\ \A r \in Rpcs : rpc[r].st = "idle"

ShutdownReturnedFor(c) ==
    /\ callerPc = "idle"
    /\ \E i \in 1..Len(shutLog) : shutLog[i].srv = c /\ shutLog[i].ch = c /\ shutLog[i].err = "nil"

\* C5: nothing panics, and a Shutdown called on a started instance before any
\* probe and any RPC leads to the serve goroutine being done and Shutdown
\* having returned nil, whether GracefulStop ran before or after Serve began.
C5_EarlyShutdownReturns ==
    /\ [](~panicked)
    /\ \A c \in Calls :
          EarlyShutdown(c) ~> (servePc[c] = "done" /\ ShutdownReturnedFor(c))

\* C5 witness: Shutdown has returned and the serve goroutine is done after
\* GracefulStop ran before Serve was called.
C5_Witness ==
    \E c \in Calls :
        /\ ShutdownReturnedFor(c)
        /\ servePc[c] = "done"
        /\ serveErr[c] = "ErrServerStopped"
        /\ probes[c] = 0

\* C6: a Shutdown call made when Start was never called returns nil in the
\* same step and changes nothing else: no server is asked to stop, no channel
\* is waited on, no field of the instance changes.
C6_ShutdownNeverStartedIsNoOp ==
    [][(nShutdown' = nShutdown + 1 /\ nStart = 0) =>
          /\ callerPc' = "idle"
          /\ shutLog' = Append(shutLog, [srv |-> Nil, ch |-> Nil, err |-> "nil"])
          /\ UNCHANGED <<gcVars, srvVars, hsVars, pollVars, serveVars, shutSrv, shutCh,
                         panicked, rpc, now>>]_vars

\* C6 witness: Shutdown has returned on an instance never started.
C6_Witness ==
    nStart = 0 /\ Len(shutLog) >= 1 /\ callerPc = "idle"

\* C7: no RPC is in flight on a server once a Serve call on it has returned
\* because of the stop, nor once a Shutdown that stopped it has returned; and
\* no RPC begins on a server that has been asked to stop.
C7_InFlightRpcOutlivesNoStop ==
    /\ [](\A g \in Calls :
            (servePc[g] \in {"closing", "done"} /\ serveErr[g] = "nil")
                => InFlight(serveSrv[g]) = {})
    /\ [](\A i \in 1..Len(shutLog) :
            shutLog[i].srv # Nil => InFlight(shutLog[i].srv) = {})
    /\ [][\A r \in Rpcs :
            (rpc[r].st = "idle" /\ rpc'[r].st = "inflight") => ~srvQuit[rpc'[r].srv]]_vars

\* C7 witness: Shutdown is inside GracefulStop, the serve goroutine has left
\* its accept loop, and an RPC begun before is still in flight.
C7_Witness ==
    \E r \in Rpcs : \E g \in Calls :
        /\ callerPc = "gracefulStop"
        /\ rpc[r].st = "inflight"
        /\ rpc[r].srv = shutSrv
        /\ servePc[g] = "draining"
        /\ serveSrv[g] = shutSrv

\* C8: a serve goroutine has reported one fault if Serve returned to it an
\* error other than nil and the sentinel, and none otherwise; and no fault is
\* ever reported by a goroutine whose server had been asked to stop.
C8_FaultIffFatal ==
    /\ [](\A g \in Calls :
            /\ faults[g] = (IF serveErr[g] \notin {"none", "nil", "ErrServerStopped"}
                            THEN 1 ELSE 0)
            /\ (servePc[g] \in {"closing", "done"}) = (serveErr[g] # "none"))
    /\ [][\A g \in Calls :
            faults'[g] # faults[g] => ~srvQuit'[serveSrv'[g]]]_vars

\* C8 witness: Serve returned the sentinel and no fault was reported.
C8_Witness ==
    \E g \in Calls : servePc[g] = "done" /\ serveErr[g] = "ErrServerStopped" /\ faults[g] = 0

\* C9: every Shutdown call that has returned after stopping the server of a
\* successful Start received from that Start's stop channel, which is closed,
\* and that Start's serve goroutine is done.
C9_ShutdownWaitsForServeLoop ==
    \A i \in 1..Len(shutLog) :
        (shutLog[i].srv # Nil /\ Started(shutLog[i].srv)) =>
            /\ shutLog[i].ch = shutLog[i].srv
            /\ chClosed[shutLog[i].ch]
            /\ servePc[shutLog[i].srv] = "done"

\* C9 witness: Shutdown has returned after a serve loop that was accepting
\* was stopped.
C9_Witness ==
    \E i \in 1..Len(shutLog) :
        /\ shutLog[i].ch # Nil
        /\ serveErr[shutLog[i].ch] = "nil"
        /\ servePc[shutLog[i].ch] = "done"

\* C10: the only name ever set is "", the only values set are SERVING and
\* NOT_SERVING, every table holds one of the two for "" from its creation
\* on, and no Check("") is answered SERVICE_UNKNOWN.
C10_OnlyEmptyNameNeverUnknown ==
    /\ \A c \in Calls :
          /\ written[c] \subseteq ({""} \X {"SERVING", "NOT_SERVING"})
          /\ pollPc[c] # "none" => Check(hs[c], "") \in {"SERVING", "NOT_SERVING"}
          /\ \A n \in Names \ {""} : hs[c][n] = "ABSENT"
    /\ \A r \in Rpcs :
          rpc[r].st = "responded" => rpc[r].ans \in {"SERVING", "NOT_SERVING"}

\* C10 witness: a Check("") was answered SERVING before the first probe, and
\* a verdict has been published since.
C10_Witness ==
    \E r \in Rpcs :
        /\ rpc[r].st = "responded"
        /\ rpc[r].ans = "SERVING"
        /\ written[rpc[r].srv] = {<<"", "NOT_SERVING">>}

\* C11: a serve goroutine is inside Serve only on a server whose health
\* server is registered, it accepts only on a listener that is bound, every
\* RPC accepted finds the health server registered, and a poll goroutine
\* exists, and has published, only for a registered health server.
C11_RegisteredAndBoundBeforeServing ==
    /\ \A g \in Calls :
          /\ servePc[g] # "none" => Registered(g)
          /\ servePc[g] \in {"serving", "draining"} => Registered(serveSrv[g])
          /\ (servePc[g] = "serving" /\ ~srvQuit[serveSrv[g]]) => lnOpen[g]
          /\ (servePc[g] \in {"start", "deferred"} /\ ~srvQuit[g]) => lnOpen[g]
    /\ \A c \in Calls :
          (pollPc[c] # "none" \/ publishes[c] > 0 \/ written[c] # {}) => Registered(c)
    /\ \A r \in Rpcs : rpc[r].st # "idle" => Registered(rpc[r].srv)

\* C11 witness: a serve goroutine accepts on its bound listener, a client got
\* an answer from the registered health server, and the poll goroutine has
\* published.
C11_Witness ==
    \E g \in Calls : \E r \in Rpcs :
        /\ servePc[g] = "serving"
        /\ lnOpen[g]
        /\ rpc[r].st = "responded"
        /\ rpc[r].srv = serveSrv[g]
        /\ publishes[g] > 0

\* C12: under fair scheduling every Shutdown call that has begun to stop the
\* server of a successful Start returns, whichever health RPCs are in flight.
C12_ShutdownAlwaysReturns ==
    \A c \in Calls :
        (callerPc = "gracefulStop" /\ shutSrv = c /\ Started(c)) ~> (callerPc = "idle")

\* the last probe of poll goroutine c has returned a failure and its verdict
\* is about to be published
FailedProbe(c) == pollPc[c] = "got" /\ ~Healthy(lastOutcome[c])

\* C13: a launched poll goroutine never leaves its loop; the step that
\* follows a failed probe publishes NOT_SERVING and begins a sleep of one
\* interval, reporting no fault and panicking nothing; and, time permitting,
\* every failed probe is followed by another probe.
C13_FailedProbeNeverStopsLoop ==
    /\ [](\A c \in Calls :
            pollPc[c] # "none" => pollPc[c] \in {"warmup", "probing", "got", "sleep"})
    /\ [][\A c \in Calls :
            (FailedProbe(c) /\ pollPc'[c] # pollPc[c]) =>
                /\ hs'[c][""] = "NOT_SERVING"
                /\ publishes'[c] = publishes[c] + 1
                /\ pollPc'[c] = "sleep"
                /\ wake'[c] = now + Interval
                /\ UNCHANGED <<faults, panicked, startErr>>]_vars
    /\ \A c \in Calls : \A k \in 1..MaxTime :
          (FailedProbe(c) /\ probes[c] = k /\ now + Interval <= MaxTime)
              ~> (probes[c] = k + 1)

\* C13 witness: a second probe is under way after a first probe that timed
\* out with a transport error.
C13_Witness ==
    \E c \in Calls :
        /\ pollPc[c] = "probing"
        /\ probes[c] = 2
        /\ lastOutcome[c].err
        /\ busy[c] = ClientTimeout
        /\ hs[c][""] = "NOT_SERVING"

\* the probes of poll goroutine c that have returned
Completed(c) == IF pollPc[c] = "probing" THEN probes[c] - 1 ELSE probes[c]

\* C14: the publishes of a poll goroutine number its completed probes, or one
\* less exactly while the verdict of the last probe awaits its publish; a
\* publish is the step from a completed probe to the sleep; and a probe is
\* issued only from an expired sleep, the second and later ones at least one
\* interval after the probe before.
C14_ProbePublishSleepCycle ==
    /\ [](\A c \in Calls :
            /\ publishes[c] = (IF pollPc[c] = "got" THEN Completed(c) - 1 ELSE Completed(c))
            /\ pollPc[c] \in {"none", "warmup"} => probes[c] = 0)
    /\ [][\A c \in Calls :
            /\ publishes'[c] # publishes[c] =>
                  /\ publishes'[c] = publishes[c] + 1
                  /\ pollPc[c] = "got"
                  /\ pollPc'[c] = "sleep"
                  /\ wake'[c] = now + Interval
            /\ probes'[c] # probes[c] =>
                  /\ probes'[c] = probes[c] + 1
                  /\ pollPc[c] = (IF probes[c] = 0 THEN "warmup" ELSE "sleep")
                  /\ wake[c] <= now
                  /\ probes[c] > 0 => now - probeAt[c] >= Interval]_vars

\* C14 witness: the second probe has returned and its verdict is not yet
\* published: two completed probes, one publish.
C14_Witness ==
    \E c \in Calls : pollPc[c] = "got" /\ probes[c] = 2 /\ publishes[c] = 1

\* C15: the table of Start call c changes only when that call creates it and
\* when the poll goroutine of that same call publishes, one table at a time;
\* every other step, a later Start included, leaves it as it is; and each
\* Start call launches its one poll goroutine once, at the creation of the
\* table.
C15_SingleWriter ==
    [][\A c \in Calls :
          /\ (hs'[c] # hs[c] \/ written'[c] # written[c]) =>
                \/ /\ hs[c] = NoTable
                   /\ hs'[c] = NewServer
                   /\ nStart' = c
                   /\ pollPc[c] = "none" /\ pollPc'[c] = "warmup"
                   /\ written' = written
                \/ /\ pollPc[c] = "got" /\ pollPc'[c] = "sleep"
                   /\ publishes'[c] = publishes[c] + 1
                   /\ hs'[c] = SetServingStatus(hs[c], "", pollStatus[c])
                   /\ \A d \in Calls \ {c} :
                         hs'[d] = hs[d] /\ written'[d] = written[d] /\ pollPc'[d] = pollPc[d]
          /\ (pollPc[c] # "none" /\ nStart' # nStart) => (hs'[c] = hs[c] /\ pollPc'[c] = pollPc[c])
          /\ (pollPc'[c] = "warmup" /\ pollPc[c] # "warmup") => (pollPc[c] = "none" /\ nStart' = c)
      ]_vars

\* C15 witness: two Start calls have succeeded on the instance and the poll
\* goroutine of each has published its own verdict into its own table.
C15_Witness ==
    \E c \in Calls : \E d \in Calls :
        /\ c # d
        /\ written[c] = {<<"", "SERVING">>}
        /\ written[d] = {<<"", "NOT_SERVING">>}
        /\ hs[c][""] = "SERVING"
        /\ hs[d][""] = "NOT_SERVING"

\* the next step of poll goroutine c
PollStep(c) == PollProbe(c) \/ (\E o \in Outcomes : PollGot(c, o)) \/ PollPublish(c)

\* C16: no step of Shutdown changes anything of a poll goroutine or of a
\* table; a poll goroutine that has something to do can do it, whether its
\* server is running, asked to stop or stopped and whether Shutdown is
\* running or has returned; and Shutdown takes its next step as soon as the
\* server is drained, or the stop channel closed, wherever the poll
\* goroutine stands.
C16_ShutdownLeavesPollLoopRunning ==
    /\ [][callVars' # callVars => UNCHANGED <<pollVars, hsVars>>]_vars
    /\ [](\A c \in Calls :
            /\ Started(c) => pollPc[c] \in {"warmup", "probing", "got", "sleep"}
            /\ PollDue(c) => ENABLED PollStep(c))
    /\ []((callerPc = "gracefulStop" /\ Drained(shutSrv)) => ENABLED ShutdownStopped)
    /\ []((callerPc = "waitStop" /\ chClosed[shutCh]) => ENABLED ShutdownRecv)

\* C16 witness: Shutdown has returned, the server is stopped, and the poll
\* goroutine has published a verdict and is inside its next probe.
C16_Witness ==
    \E c \in Calls :
        /\ ShutdownReturnedFor(c)
        /\ srvDone[c]
        /\ pollPc[c] = "probing"
        /\ publishes[c] >= 1

\* C17: a Shutdown that stops the server stored by a Start call that failed
\* at the bind finds no stop channel, no goroutine launched and the server
\* drained, so its GracefulStop returns; it never receives from a channel;
\* and it has returned nil.
C17_ShutdownAfterBindFailure ==
    /\ (callerPc # "idle" /\ startErr[shutSrv] = "bind") =>
          /\ callerPc = "gracefulStop"
          /\ gcStopCh = Nil
          /\ \A g \in Calls : servePc[g] = "none" /\ pollPc[g] = "none"
          /\ Drained(shutSrv)
          /\ ENABLED ShutdownStopped
    /\ \A i \in 1..Len(shutLog) :
          (shutLog[i].srv # Nil /\ startErr[shutLog[i].srv] = "bind") =>
              shutLog[i].ch = Nil /\ shutLog[i].err = "nil"

\* C17 witness: the only Start call failed at the bind and a Shutdown called
\* after it has returned.
C17_Witness ==
    /\ nStart = 1
    /\ startErr[1] = "bind"
    /\ callerPc = "idle"
    /\ \E i \in 1..Len(shutLog) : shutLog[i].srv = 1

\* a Shutdown that stopped the server of successful Start call c has returned
ShutdownCompleted(c) == c # Nil /\ Started(c) /\ \E i \in 1..Len(shutLog) : shutLog[i].srv = c

\* C18: once a Shutdown of a started instance has returned, every step of a
\* further Shutdown call changes nothing but the caller's own position and
\* its returned result; that call is never blocked: its GracefulStop finds
\* the server drained and its receive finds the channel closed; it returns
\* nil; and no channel is ever closed twice.
C18_ShutdownIdempotent ==
    /\ [][(callVars' # callVars /\ ShutdownCompleted(gcServer)) =>
            UNCHANGED <<gcVars, srvVars, hsVars, pollVars, serveVars, panicked, rpc, now>>]_vars
    /\ []((callerPc # "idle" /\ ShutdownCompleted(shutSrv)) =>
            /\ chClosed[gcStopCh]
            /\ callerPc = "gracefulStop" => ENABLED ShutdownStopped
            /\ callerPc = "waitStop" => ENABLED ShutdownRecv)
    /\ [](\A i \in 1..Len(shutLog) :
            ShutdownCompleted(shutLog[i].srv) =>
                shutLog[i].err = "nil" /\ shutLog[i].ch = shutLog[i].srv)
    /\ [](~panicked)

\* C18 witness: two Shutdown calls have returned nil for the same started
\* instance.
C18_Witness ==
    /\ callerPc = "idle"
    /\ Len(shutLog) = 2
    /\ shutLog[1] = shutLog[2]
    /\ ShutdownCompleted(shutLog[2].srv)
    /\ faults[shutLog[2].srv] = 0

\* C19: a serve goroutine to which Serve returned a fatal error has reported
\* one fault and, once done, has closed its stop channel; and a Shutdown
\* that stops the server of that goroutine returns.
C19_FatalExitStillLetsShutdownReturn ==
    /\ [](\A g \in Calls :
            serveErr[g] = "fatal" =>
                /\ faults[g] = 1
                /\ servePc[g] = "done" => chClosed[serveCh[g]])
    /\ \A c \in Calls :
          (serveErr[c] = "fatal" /\ callerPc = "gracefulStop" /\ shutSrv = c)
              ~> (callerPc = "idle")

\* C20: whatever Start and Shutdown calls were made before, a Shutdown call
\* that has begun returns, and when it returns after stopping a server no
\* serve goroutine launched by any Start call is still running.
C20_ShutdownStopsEveryServeLoop ==
    /\ [][(Len(shutLog') > Len(shutLog) /\ gcServer # Nil) =>
            \A g \in Calls : servePc'[g] \in {"none", "done"}]_vars
    /\ (callerPc # "idle") ~> (callerPc = "idle")

=============================================================================
